---- MODULE Spec2Model ----
(***************************************************************************)
(* Model of the in-memory productos REST API (src/index.js).               *)
(* JS values are uniform records [t, k, h, s, b]:                          *)
(*   t : typeof tag ("number","string","boolean","null","undefined")       *)
(*   k : number kind ("fin","inf","ninf"); h / d : finite value         *)
(*   s : string contents as a sequence of one-char strings; b : boolean    *)
(* JSON.parse never yields NaN, but 1e999 / -1e999 parse to +-Infinity.    *)
(***************************************************************************)
EXTENDS Integers, Sequences, FiniteSets, TLC

VARIABLES prods, nextId, prev, req, resp
vars == <<prods, nextId, prev, req, resp>>

\* ---- JS values ----
Undef == [t |-> "undefined", k |-> "fin", h |-> 0, d |-> 1, s |-> <<>>, b |-> FALSE]
Null == [t |-> "null", k |-> "fin", h |-> 0, d |-> 1, s |-> <<>>, b |-> FALSE]
\* finite number h / d (d > 0)
Rat(h, d) == [t |-> "number", k |-> "fin", h |-> h, d |-> d, s |-> <<>>, b |-> FALSE]
\* finite number given in halves (15.5 -> Num(31))
Num(h) == Rat(h, 2)
PosInf == [t |-> "number", k |-> "inf", h |-> 0, d |-> 1, s |-> <<>>, b |-> FALSE]
NegInf == [t |-> "number", k |-> "ninf", h |-> 0, d |-> 1, s |-> <<>>, b |-> FALSE]
Str(s) == [t |-> "string", k |-> "fin", h |-> 0, d |-> 1, s |-> s, b |-> FALSE]
Bool(b) == [t |-> "boolean", k |-> "fin", h |-> 0, d |-> 1, s |-> <<>>, b |-> b]

\* Whitespace characters removed by String.prototype.trim / Number()
\* (WhiteSpace and LineTerminator of ECMAScript; characters without a TLA+
\* escape are named by their code point)
WS == {" ", "\t", "\n", "\r", "\f", "U+000B", "U+00A0", "U+FEFF", "U+1680",
       "U+2000", "U+2001", "U+2002", "U+2003", "U+2004", "U+2005", "U+2006",
       "U+2007", "U+2008", "U+2009", "U+200A", "U+2028", "U+2029", "U+202F",
       "U+205F", "U+3000"}

TrimStart(s) ==
  IF \E i \in 1..Len(s) : s[i] \notin WS
  THEN SubSeq(s, CHOOSE i \in 1..Len(s) : s[i] \notin WS /\ \A j \in 1..(i-1) : s[j] \in WS,
              Len(s))
  ELSE <<>>
TrimEnd(s) ==
  IF \E i \in 1..Len(s) : s[i] \notin WS
  THEN SubSeq(s, 1, CHOOSE i \in 1..Len(s) : s[i] \notin WS /\
                                            \A j \in (i+1)..Len(s) : s[j] \in WS)
  ELSE <<>>
Trim(s) == TrimEnd(TrimStart(s))

\* const isBoolean = v => typeof v === 'boolean'
isBoolean(v) == v.t = "boolean"
\* const isNumber = v => typeof v === 'number' && !Number.isNaN(v)
\* (NaN is not representable: no JSON input produces it)
isNumber(v) == v.t = "number"

\* v < 0 for a number v
JsNeg(v) == (v.k = "fin" /\ v.h < 0) \/ v.k = "ninf"

validarProductoCompleto_NoTrim(body) ==
  IF body.nombre.t # "string" THEN "nombre invalido"
  ELSE IF ~isNumber(body.precio) \/ JsNeg(body.precio) THEN "precio invalido"
  ELSE IF ~isNumber(body.stock) \/ JsNeg(body.stock) THEN "stock invalido"
  ELSE IF ~isBoolean(body.activo) THEN "activo invalido"
  ELSE ""

\* ---- validarProductoCompleto ----
validarProductoCompleto(body) ==
  IF body.nombre.t # "string" \/ Trim(body.nombre.s) = <<>> THEN "nombre invalido"
  ELSE IF ~isNumber(body.precio) \/ JsNeg(body.precio) THEN "precio invalido"
  ELSE IF ~isNumber(body.stock) \/ JsNeg(body.stock) THEN "stock invalido"
  ELSE IF ~isBoolean(body.activo) THEN "activo invalido"
  ELSE ""

\* ---- limpiarPatch: keep only the present keys in validKeys ----
validKeys == {"nombre", "precio", "stock", "activo"}
limpiarPatch(body) ==
  [k \in {x \in DOMAIN body : x \in validKeys /\ body[x].t # "undefined"} |-> body[k]]

\* ---- naturals of any size as decimal digit sequences, most significant first ----
Zeros(n) == [i \in 1..n |-> 0]
StripZ(a) ==
  IF \E i \in 1..Len(a) : a[i] # 0
  THEN SubSeq(a, CHOOSE i \in 1..Len(a) : a[i] # 0 /\ \A j \in 1..(i-1) : a[j] = 0, Len(a))
  ELSE <<>>
Pad(a, n) == Zeros(n - Len(a)) \o a
\* -1, 0 or 1 as a <, =, > b
BCmp(a, b) ==
  LET x == StripZ(a)
      y == StripZ(b)
  IN IF Len(x) # Len(y) THEN (IF Len(x) < Len(y) THEN -1 ELSE 1)
     ELSE IF x = y THEN 0
     ELSE LET i == CHOOSE i \in 1..Len(x) : x[i] # y[i] /\ \A j \in 1..(i-1) : x[j] = y[j]
          IN IF x[i] < y[i] THEN -1 ELSE 1
BDouble(a) ==
  LET x == <<0>> \o a
      n == Len(x)
  IN StripZ([i \in 1..n |-> ((2 * x[i]) % 10) + (IF i < n /\ x[i + 1] >= 5 THEN 1 ELSE 0)])
BAdd(a, b) ==
  LET n == (IF Len(a) > Len(b) THEN Len(a) ELSE Len(b)) + 1
      x == Pad(a, n)
      y == Pad(b, n)
      sm == [i \in 1..n |-> x[i] + y[i]]
      carry(i) == \E j \in (i+1)..n : sm[j] >= 10 /\ \A l \in (i+1)..(j-1) : sm[l] >= 9
  IN StripZ([i \in 1..n |-> (sm[i] + (IF carry(i) THEN 1 ELSE 0)) % 10])
\* a - b for a >= b
BSub(a, b) ==
  LET x == StripZ(a)
      n == Len(x)
      y == Pad(StripZ(b), n)
      borrow(i) == \E j \in (i+1)..n : x[j] < y[j] /\ \A l \in (i+1)..(j-1) : x[l] <= y[l]
  IN StripZ([i \in 1..n |-> (x[i] - y[i] - (IF borrow(i) THEN 1 ELSE 0)) % 10])
RECURSIVE Times2Pow(_, _)
\* a * 2^k
Times2Pow(a, k) ==
  IF k = 0 THEN a
  ELSE IF k = 1 THEN BDouble(a)
  ELSE LET h == Times2Pow(a, k \div 2) IN
       IF h = h THEN Times2Pow(h, k - k \div 2) ELSE <<>>
\* digits of a machine integer n >= 0
FromInt(n) ==
  IF n = 0 THEN <<>>
  ELSE LET L == CHOOSE L \in 1..10 : (n \div 10^(L - 1)) \in 1..9
       IN [i \in 1..L |-> (n \div 10^(L - i)) % 10]

\* ---- Number(string) for query parameters (StringToNumber, then rounding
\* ---- to the nearest double, ties to even) ----
LowerDigits == <<"0","1","2","3","4","5","6","7","8","9","a","b","c","d","e","f">>
UpperDigits == <<"0","1","2","3","4","5","6","7","8","9","A","B","C","D","E","F">>
\* characters that are digits in radix r
Digits(r) == {LowerDigits[i] : i \in 1..r} \cup {UpperDigits[i] : i \in 1..r}
DigitVal(c) == CHOOSE i \in 0..15 : LowerDigits[i + 1] = c \/ UpperDigits[i + 1] = c
AllDigits(s, r) == s # <<>> /\ \A i \in 1..Len(s) : s[i] \in Digits(r)
OnlyDigits(s) == \A i \in 1..Len(s) : s[i] \in Digits(10)
DecDigits(s) == [i \in 1..Len(s) |-> DigitVal(s[i])]
RECURSIVE RadixDigits(_, _)
\* value of a non-empty digit string in radix 2^bits
RadixDigits(s, bits) ==
  IF Len(s) = 1 THEN FromInt(DigitVal(s[1]))
  ELSE LET m == Len(s) \div 2 IN
       BAdd(Times2Pow(RadixDigits(SubSeq(s, 1, m), bits), bits * (Len(s) - m)),
            RadixDigits(SubSeq(s, m + 1, Len(s)), bits))
RECURSIVE SmallVal(_)
SmallVal(x) == IF x = <<>> THEN 0 ELSE SmallVal(SubSeq(x, 1, Len(x) - 1)) * 10 + x[Len(x)]
Pos(s, C) == {i \in 1..Len(s) : s[i] \in C}
InfChars == <<"I","n","f","i","n","i","t","y">>
\* A parsed number: NaN, +-Infinity, or the double nearest to sg * dg * 10^e
\* (dg = <<>> for zero).
NaNRes == [nan |-> TRUE, k |-> "fin", sg |-> 1, dg |-> <<>>, e |-> 0]
InfRes(sg) == [nan |-> FALSE, k |-> IF sg = 1 THEN "inf" ELSE "ninf", sg |-> sg,
               dg |-> <<>>, e |-> 0]
DecRes(sg, dg, e) == [nan |-> FALSE, k |-> "fin", sg |-> sg, dg |-> dg, e |-> e]
\* 2^1024 - 2^970: the least magnitude that rounds to Infinity (a tie goes to even)
DoubleOverflow == Times2Pow(BSub(Times2Pow(<<1>>, 54), <<1>>), 970)
\* rounding of sg * dg0 * 10^e: overflow to Infinity, underflow to 0 at or
\* below 2^-1075 (half the least subnormal; a tie goes to even, i.e. 0)
ToDouble(sg, dg0, e) ==
  LET dg == StripZ(dg0)
      mag == Len(dg) - 1 + e
  IN IF dg = <<>> THEN DecRes(1, <<>>, 0)
     ELSE IF mag >= 309 THEN InfRes(sg)
     ELSE IF mag = 308 /\
             (IF e >= 0 THEN BCmp(dg \o Zeros(e), DoubleOverflow)
              ELSE BCmp(dg, DoubleOverflow \o Zeros(-e))) >= 0
       THEN InfRes(sg)
     ELSE IF mag <= -325 THEN DecRes(1, <<>>, 0)
     ELSE IF mag = -324 /\ BCmp(Times2Pow(dg, 1075), <<1>> \o Zeros(-e)) <= 0
       THEN DecRes(1, <<>>, 0)
     ELSE DecRes(sg, dg, e)
\* StrUnsignedDecimalLiteral r, with sign sg (1 or -1)
DecimalValue(r, sg) ==
  LET ePos == Pos(r, {"e", "E"})
      p == IF ePos = {} THEN Len(r) + 1 ELSE CHOOSE x \in ePos : TRUE
      mant == SubSeq(r, 1, p - 1)
      expS == SubSeq(r, p + 1, Len(r))
      expSign == IF expS # <<>> /\ expS[1] = "-" THEN -1 ELSE 1
      expDigits == IF expS # <<>> /\ expS[1] \in {"+", "-"} THEN Tail(expS) ELSE expS
      dots == Pos(mant, {"."})
      q == IF dots = {} THEN Len(mant) + 1 ELSE CHOOSE x \in dots : TRUE
      intPart == SubSeq(mant, 1, q - 1)
      frac == SubSeq(mant, q + 1, Len(mant))
      expAbs == LET x == StripZ(DecDigits(expDigits)) IN
                IF Len(x) > 6 THEN 1000000 ELSE SmallVal(x)
      e == expSign * (IF ePos = {} THEN 0 ELSE expAbs) - Len(frac)
  IN IF \/ Cardinality(ePos) > 1 \/ Cardinality(dots) > 1
        \/ (ePos # {} /\ ~AllDigits(expDigits, 10))
        \/ ~OnlyDigits(intPart) \/ ~OnlyDigits(frac)
        \/ (intPart = <<>> /\ frac = <<>>)
     THEN NaNRes
     ELSE ToDouble(sg, DecDigits(intPart \o frac), e)
\* Number(str)
NumberOfString(str) ==
  LET t == Trim(str)
      sg == IF t # <<>> /\ t[1] = "-" THEN -1 ELSE 1
      r == IF t # <<>> /\ t[1] \in {"+", "-"} THEN Tail(t) ELSE t
      pre == IF Len(t) >= 2 THEN SubSeq(t, 1, 2) ELSE t
      rest == SubSeq(t, 3, Len(t))
  IN IF t = <<>> THEN DecRes(1, <<>>, 0)
     ELSE IF pre \in {<<"0", "x">>, <<"0", "X">>}
       THEN IF AllDigits(rest, 16) THEN ToDouble(1, RadixDigits(rest, 4), 0) ELSE NaNRes
     ELSE IF pre \in {<<"0", "o">>, <<"0", "O">>}
       THEN IF AllDigits(rest, 8) THEN ToDouble(1, RadixDigits(rest, 3), 0) ELSE NaNRes
     ELSE IF pre \in {<<"0", "b">>, <<"0", "B">>}
       THEN IF AllDigits(rest, 2) THEN ToDouble(1, RadixDigits(rest, 1), 0) ELSE NaNRes
     ELSE IF r = InfChars THEN InfRes(sg)
     ELSE DecimalValue(r, sg)

\* ---- comparing a parsed query number with a stored price ----
\* A finite price is a double h / d with d a power of two and 0 < |h| < 2^31,
\* so its significand is even.  The reals that round to it are those in
\* [p - lo, p + up] (both ends included: a tie goes to the even significand),
\* with up = 2^(E-53) and lo = up, or up / 2 when |p| = 2^E.
Abs(x) == IF x < 0 THEN -x ELSE x
Log2Floor(n) == CHOOSE l \in 0..30 : n \div 2^l = 1
Log2Exact(d) == CHOOSE l \in 0..30 : 2^l = d
\* floor(log10(h / d)) for h, d > 0
Log10Floor(h, d) ==
  LET AtLeast(m) == IF m >= 0 THEN BCmp(FromInt(h), FromInt(d) \o Zeros(m)) >= 0
                    ELSE BCmp(FromInt(h) \o Zeros(-m), FromInt(d)) >= 0
  IN CHOOSE m \in -12..10 : AtLeast(m) /\ ~AtLeast(m + 1)
\* |q| * 2^g compared with the natural a
QScaledCmp(n, g, a) ==
  IF n.e >= 0 THEN BCmp(Times2Pow(n.dg \o Zeros(n.e), g), a)
  ELSE BCmp(Times2Pow(n.dg, g), a \o Zeros(-n.e))
\* for a finite parsed n and a price p > 0 (h > 0): |n| >= p's lower / upper bound
\* of the rounding interval, scaled by 2^G
AboveLow(n, h, d) ==
  LET lh == Log2Floor(h)
      g == 54 - lh + Log2Exact(d)
      mq == Len(n.dg) - 1 + n.e
      mp == Log10Floor(h, d)
      pc == Times2Pow(FromInt(h), 54 - lh)
  IN IF mq > mp + 1 THEN TRUE ELSE IF mq < mp - 1 THEN FALSE
     ELSE QScaledCmp(n, g, BSub(pc, IF h = 2^lh THEN <<1>> ELSE <<2>>)) >= 0
BelowUp(n, h, d) ==
  LET lh == Log2Floor(h)
      g == 54 - lh + Log2Exact(d)
      mq == Len(n.dg) - 1 + n.e
      mp == Log10Floor(h, d)
      pc == Times2Pow(FromInt(h), 54 - lh)
  IN IF mq > mp + 1 THEN FALSE ELSE IF mq < mp - 1 THEN TRUE
     ELSE QScaledCmp(n, g, BAdd(pc, <<2>>)) <= 0
\* double(n) <= p and double(n) >= p for finite n and finite p = h / d
FinLe(n, p) ==
  IF n.dg = <<>> THEN p.h >= 0
  ELSE IF p.h = 0 THEN n.sg = -1
  ELSE IF p.h > 0 THEN n.sg = -1 \/ BelowUp(n, p.h, p.d)
  ELSE n.sg = -1 /\ AboveLow(n, -p.h, p.d)
FinGe(n, p) ==
  IF n.dg = <<>> THEN p.h <= 0
  ELSE IF p.h = 0 THEN n.sg = 1
  ELSE IF p.h > 0 THEN n.sg = 1 /\ AboveLow(n, p.h, p.d)
  ELSE n.sg = 1 \/ BelowUp(n, -p.h, p.d)
\* p >= Number(q)   (p.precio >= n)
PriceGeQ(p, n) ==
  IF n.k = "ninf" \/ p.k = "inf" THEN TRUE
  ELSE IF n.k = "inf" \/ p.k = "ninf" THEN FALSE
  ELSE FinLe(n, p)
\* Number(q) >= p   (p.precio <= n)
QGePrice(n, p) ==
  IF n.k = "inf" \/ p.k = "ninf" THEN TRUE
  ELSE IF n.k = "ninf" \/ p.k = "inf" THEN FALSE
  ELSE FinGe(n, p)

\* ---- ids are strings (sequences of one-char strings) ----
DecChars == <<"0","1","2","3","4","5","6","7","8","9">>
\* code points of the characters the modelled ids are made of
CodePoint == [c \in {DecChars[i] : i \in 1..10} |-> CHOOSE i \in 48..57 : DecChars[i - 47] = c]
             @@ ("r" :> 114) @@ ("s" :> 115) @@ ("\n" :> 10) @@ ("U+20AC" :> 8364)
\* Node's setHeader rejects a value with a character outside \t, \x20-\x7e,
\* \x80-\xff (ERR_INVALID_CHAR); the "/productos/" prefix is plain ASCII
HeaderValueOK(id) ==
  \A i \in 1..Len(id) :
    LET x == CodePoint[id[i]] IN x = 9 \/ (x >= 32 /\ x <= 126) \/ (x >= 128 /\ x <= 255)
\* randomUUID() never repeats (and is plain ASCII); the n-th one is "r<n>"
FreshId(n) == <<"r", DecChars[n + 1]>>

\* ---- seed (prices and stocks in halves: 15.5 -> 31; ids "s1", "s2") ----
Seed == <<
  [id |-> <<"s", "1">>, nombre |-> Str(<<"L","a","p","i","c","e","r","o">>),
   precio |-> Num(31), stock |-> Num(200), activo |-> Bool(TRUE)],
  [id |-> <<"s", "2">>, nombre |-> Str(<<"C","u","a","d","e","r","n","o">>),
   precio |-> Num(90), stock |-> Num(100), activo |-> Bool(TRUE)] >>

NoBody == [nombre |-> Undef, precio |-> Undef, stock |-> Undef,
           activo |-> Undef, id |-> Undef]
NoQuery == [min |-> Undef, max |-> Undef, act |-> Undef]
NoReq == [op |-> "none", id |-> <<>>, body |-> NoBody, q |-> NoQuery]
\* JSON.stringify of a number field: non-finite numbers are written as null
JsonVal(v) == IF v.t = "number" /\ v.k # "fin" THEN Null ELSE v
JsonProduct(p) ==
  [f \in DOMAIN p |-> IF f = "id" THEN p.id ELSE JsonVal(p[f])]
\* res.status(st).set('Location', ...).json(body)
Resp(st, loc, err, rec, lst) ==
  [status |-> st, loc |-> loc, err |-> err,
   rec |-> [i \in 1..Len(rec) |-> JsonProduct(rec[i])],
   list |-> [i \in 1..Len(lst) |-> JsonProduct(lst[i])]]
NoResp == Resp(0, <<>>, "", <<>>, <<>>)

\* findIndex by id (0 = not found)
FindIndex(id) ==
  IF \E i \in 1..Len(prods) : prods[i].id = id
  THEN CHOOSE i \in 1..Len(prods) : prods[i].id = id /\ \A j \in 1..(i-1) : prods[j].id # id
  ELSE 0

\* ---- bounds ----
MaxLen == 3
MaxIds == 2

Post_NoTrim(body) ==
  /\ Len(prods) < MaxLen /\ nextId < MaxIds
  /\ prev' = prods
  /\ req' = [op |-> "POST", id |-> <<>>, body |-> body, q |-> NoQuery]
  /\ LET err == validarProductoCompleto(body) IN
     IF err # ""
     THEN /\ resp' = Resp(422, <<>>, err, <<>>, <<>>)
          /\ UNCHANGED <<prods, nextId>>
     ELSE LET nuevo == [id |-> FreshId(nextId), nombre |-> body.nombre,
                        precio |-> body.precio, stock |-> body.stock,
                        activo |-> body.activo]
          IN /\ prods' = Append(prods, nuevo)
             /\ nextId' = nextId + 1
             /\ resp' = Resp(201, <<nuevo.id>>, "", <<nuevo>>, <<>>)

\* ---- POST /productos ----
Post(body) ==
  /\ Len(prods) < MaxLen /\ nextId < MaxIds
  /\ prev' = prods
  /\ req' = [op |-> "POST", id |-> <<>>, body |-> body, q |-> NoQuery]
  /\ LET err == validarProductoCompleto(body) IN
     IF err # ""
     THEN /\ resp' = Resp(422, <<>>, err, <<>>, <<>>)
          /\ UNCHANGED <<prods, nextId>>
     ELSE LET nuevo == [id |-> FreshId(nextId), nombre |-> Str(Trim(body.nombre.s)),
                        precio |-> body.precio, stock |-> body.stock,
                        activo |-> body.activo]
          IN /\ prods' = Append(prods, nuevo)
             /\ nextId' = nextId + 1
             /\ resp' = Resp(201, <<nuevo.id>>, "", <<nuevo>>, <<>>)

Put_AlwaysAppend(id, body) ==
  /\ Len(prods) < MaxLen
  /\ prev' = prods
  /\ req' = [op |-> "PUT", id |-> id, body |-> body, q |-> NoQuery]
  /\ UNCHANGED nextId
  /\ LET err == validarProductoCompleto(body) IN
     IF err # ""
     THEN /\ resp' = Resp(422, <<>>, err, <<>>, <<>>)
          /\ UNCHANGED prods
     ELSE LET reemplazo == [id |-> id, nombre |-> Str(Trim(body.nombre.s)),
                            precio |-> body.precio, stock |-> body.stock,
                            activo |-> body.activo]
          IN /\ prods' = Append(prods, reemplazo)
             /\ resp' = IF HeaderValueOK(id)
                        THEN Resp(201, <<id>>, "", <<reemplazo>>, <<>>)
                        ELSE Resp(500, <<>>, "Error interno", <<>>, <<>>)

\* ---- PUT /productos/:id (full replacement; upsert) ----
Put(id, body) ==
  /\ FindIndex(id) # 0 \/ Len(prods) < MaxLen
  /\ prev' = prods
  /\ req' = [op |-> "PUT", id |-> id, body |-> body, q |-> NoQuery]
  /\ UNCHANGED nextId
  /\ LET err == validarProductoCompleto(body) IN
     IF err # ""
     THEN /\ resp' = Resp(422, <<>>, err, <<>>, <<>>)
          /\ UNCHANGED prods
     ELSE LET idx == FindIndex(id)
              reemplazo == [id |-> id, nombre |-> Str(Trim(body.nombre.s)),
                            precio |-> body.precio, stock |-> body.stock,
                            activo |-> body.activo]
          IN IF idx = 0
             THEN /\ prods' = Append(prods, reemplazo)
                  \* .set('Location', ...) throws after the push: error handler, 500
                  /\ resp' = IF HeaderValueOK(id)
                             THEN Resp(201, <<id>>, "", <<reemplazo>>, <<>>)
                             ELSE Resp(500, <<>>, "Error interno", <<>>, <<>>)
             ELSE /\ prods' = [prods EXCEPT ![idx] = reemplazo]
                  /\ resp' = Resp(200, <<>>, "", <<reemplazo>>, <<>>)

\* per-field checks of PATCH, in code order; "" when all present fields pass
PatchError(cambios) ==
  IF "nombre" \in DOMAIN cambios /\
     (cambios.nombre.t # "string" \/ Trim(cambios.nombre.s) = <<>>)
  THEN "nombre invalido"
  ELSE IF "precio" \in DOMAIN cambios /\
          (~isNumber(cambios.precio) \/ JsNeg(cambios.precio))
  THEN "precio invalido"
  ELSE IF "stock" \in DOMAIN cambios /\
          (~isNumber(cambios.stock) \/ JsNeg(cambios.stock))
  THEN "stock invalido"
  ELSE IF "activo" \in DOMAIN cambios /\ ~isBoolean(cambios.activo)
  THEN "activo invalido"
  ELSE ""

TrimNombre_None(cambios) == cambios

\* cambios.nombre = cambios.nombre.trim()
TrimNombre(cambios) ==
  IF "nombre" \in DOMAIN cambios
  THEN [cambios EXCEPT !["nombre"] = Str(Trim(cambios.nombre.s))]
  ELSE cambios

\* { ...productos[idx], ...cambios }
Merge(p, cambios) ==
  [f \in DOMAIN p |-> IF f \in DOMAIN cambios THEN cambios[f] ELSE p[f]]

Patch_WriteFirst(id, body) ==
  /\ prev' = prods
  /\ req' = [op |-> "PATCH", id |-> id, body |-> body, q |-> NoQuery]
  /\ UNCHANGED nextId
  /\ LET idx == FindIndex(id) IN
     IF idx = 0
     THEN /\ resp' = Resp(404, <<>>, "No encontrado", <<>>, <<>>)
          /\ UNCHANGED prods
     ELSE LET cambios == limpiarPatch(body)
              err == PatchError(cambios)
              np == Merge(prods[idx], TrimNombre(cambios))
          IN /\ prods' = [prods EXCEPT ![idx] = np]
             /\ resp' = IF err # "" THEN Resp(422, <<>>, err, <<>>, <<>>)
                        ELSE Resp(200, <<>>, "", <<np>>, <<>>)

Patch_Upsert(id, body) ==
  /\ prev' = prods
  /\ req' = [op |-> "PATCH", id |-> id, body |-> body, q |-> NoQuery]
  /\ UNCHANGED nextId
  /\ LET idx == FindIndex(id)
         cambios == limpiarPatch(body)
         err == PatchError(cambios)
     IN IF err # ""
        THEN /\ resp' = Resp(422, <<>>, err, <<>>, <<>>)
             /\ UNCHANGED prods
        ELSE IF idx = 0
        THEN LET np == Merge([id |-> id, nombre |-> Undef, precio |-> Undef,
                              stock |-> Undef, activo |-> Undef],
                             TrimNombre(cambios)) IN
             /\ prods' = Append(prods, np)
             /\ resp' = Resp(201, <<id>>, "", <<np>>, <<>>)
        ELSE LET np == Merge(prods[idx], TrimNombre(cambios)) IN
             /\ prods' = [prods EXCEPT ![idx] = np]
             /\ resp' = Resp(200, <<>>, "", <<np>>, <<>>)

\* ---- PATCH /productos/:id ----
Patch(id, body) ==
  /\ prev' = prods
  /\ req' = [op |-> "PATCH", id |-> id, body |-> body, q |-> NoQuery]
  /\ UNCHANGED nextId
  /\ LET idx == FindIndex(id) IN
     IF idx = 0
     THEN /\ resp' = Resp(404, <<>>, "No encontrado", <<>>, <<>>)
          /\ UNCHANGED prods
     ELSE LET cambios == limpiarPatch(body)
              err == PatchError(cambios)
          IN IF err # ""
             THEN /\ resp' = Resp(422, <<>>, err, <<>>, <<>>)
                  /\ UNCHANGED prods
             ELSE LET np == Merge(prods[idx], TrimNombre(cambios)) IN
                  /\ prods' = [prods EXCEPT ![idx] = np]
                  /\ resp' = Resp(200, <<>>, "", <<np>>, <<>>)

Delete_Always204(id) ==
  LET rest == SelectSeq(prods, LAMBDA p : p.id # id) IN
  /\ prev' = prods
  /\ req' = [op |-> "DELETE", id |-> id, body |-> NoBody, q |-> NoQuery]
  /\ UNCHANGED nextId
  /\ prods' = rest
  /\ resp' = Resp(204, <<>>, "", <<>>, <<>>)

\* ---- DELETE /productos/:id ----
Delete(id) ==
  LET rest == SelectSeq(prods, LAMBDA p : p.id # id) IN
  /\ prev' = prods
  /\ req' = [op |-> "DELETE", id |-> id, body |-> NoBody, q |-> NoQuery]
  /\ UNCHANGED nextId
  /\ prods' = rest
  /\ resp' = IF Len(rest) = Len(prods)
             THEN Resp(404, <<>>, "No encontrado", <<>>, <<>>)
             ELSE Resp(204, <<>>, "", <<>>, <<>>)

\* ---- GET /productos/:id ----
GetOneResp(id) ==
  LET idx == FindIndex(id) IN
  IF idx = 0 THEN Resp(404, <<>>, "No encontrado", <<>>, <<>>)
  ELSE Resp(200, <<>>, "", <<prods[idx]>>, <<>>)

GetOne(id) ==
  /\ prev' = prods
  /\ req' = [op |-> "GETONE", id |-> id, body |-> NoBody, q |-> NoQuery]
  /\ UNCHANGED <<prods, nextId>>
  /\ resp' = GetOneResp(id)

TrueChars == <<"t", "r", "u", "e">>
FalseChars == <<"f", "a", "l", "s", "e">>

\* ---- GET /productos (filters) ----
ListResult(q) ==
  LET out0 == prods
      nmin == NumberOfString(q.min.s)
      out1 == IF q.min.t = "undefined" THEN out0
              ELSE SelectSeq(out0, LAMBDA p : PriceGeQ(p.precio, nmin))
      nmax == NumberOfString(q.max.s)
      out2 == IF q.max.t = "undefined" THEN out1
              ELSE SelectSeq(out1, LAMBDA p : QGePrice(nmax, p.precio))
      bAct == q.act.s = TrueChars
      out3 == IF q.act.t = "undefined" THEN out2
              ELSE SelectSeq(out2, LAMBDA p : p.activo.b = bAct)
  IN IF q.min.t # "undefined" /\ nmin.nan
     THEN Resp(400, <<>>, "minPrecio debe ser numerico", <<>>, <<>>)
     ELSE IF q.max.t # "undefined" /\ nmax.nan
     THEN Resp(400, <<>>, "maxPrecio debe ser numerico", <<>>, <<>>)
     ELSE IF q.act.t # "undefined" /\ q.act.s \notin {TrueChars, FalseChars}
     THEN Resp(400, <<>>, "activo debe ser true o false", <<>>, <<>>)
     ELSE Resp(200, <<>>, "", <<>>, out3)

List(q) ==
  /\ prev' = prods
  /\ req' = [op |-> "LIST", id |-> <<>>, body |-> NoBody, q |-> q]
  /\ UNCHANGED <<prods, nextId>>
  /\ resp' = ListResult(q)

\* ---- request inputs (JSON bodies, route ids, query strings) ----
Bodies(Names, Prices, Stocks, Acts, BodyIds) ==
  {[nombre |-> n, precio |-> p, stock |-> st, activo |-> a, id |-> i] :
     n \in Names, p \in Prices, st \in Stocks, a \in Acts, i \in BodyIds}
\* ids a client may put in a route: a seed id, an arbitrary one, any id ever issued
ClientIds == {<<"s", "2">>, <<"9", "0">>}
RouteIds == ClientIds \cup {FreshId(n) : n \in 1..(nextId - 1)}

ValidBody == [nombre |-> Str(<<"\t", "a">>), precio |-> Num(0), stock |-> Num(4),
              activo |-> Bool(TRUE), id |-> Undef]
SmallBodies == {ValidBody,
                [ValidBody EXCEPT !.nombre = Str(<<"\n">>)],
                [ValidBody EXCEPT !.precio = Num(-2)],
                [ValidBody EXCEPT !.precio = Str(<<"2">>)],
                [ValidBody EXCEPT !.stock = NegInf],
                [ValidBody EXCEPT !.stock = Null],
                [ValidBody EXCEPT !.activo = Undef]}
\* each invalid field alone, so that every PATCH check is the one rejecting
SmallPatches == {[NoBody EXCEPT !.nombre = Str(<<"b", "\t">>)],
                 [NoBody EXCEPT !.nombre = Str(<<" ">>)],
                 [NoBody EXCEPT !.precio = Num(-2)],
                 [NoBody EXCEPT !.stock = Num(-2)],
                 [NoBody EXCEPT !.stock = Str(<<"2">>)],
                 [NoBody EXCEPT !.stock = PosInf],
                 [NoBody EXCEPT !.activo = Str(TrueChars)],
                 [NoBody EXCEPT !.activo = Bool(FALSE), !.id = Num(7)]}
SmallQueries == {NoQuery,
                 [NoQuery EXCEPT !.min = Str(<<"a">>)],
                 [NoQuery EXCEPT !.max = Str(<<"1", "2">>), !.act = Str(FalseChars)]}

Init ==
  /\ prods = Seed
  /\ nextId = 1
  /\ prev = Seed
  /\ req = NoReq
  /\ resp = NoResp

Next ==
  \/ \E b \in SmallBodies : Post(b)
  \/ \E i \in RouteIds, b \in SmallBodies : Put(i, b)
  \/ \E i \in RouteIds, b \in SmallPatches : Patch(i, b)
  \/ \E i \in RouteIds : Delete(i)
  \/ \E i \in RouteIds : GetOne(i)
  \/ \E q \in SmallQueries : List(q)

Spec == Init /\ [][Next]_vars

\* ---- single requests with the full input domains, from reachable stores ----
NameIn == {Str(<<>>), Str(<<"\t">>), Str(<<"a">>), Str(<<" ", "b", "\n">>), Num(2), Undef}
NumIn == {Num(-2), Num(0), Num(3), PosInf, NegInf, Str(<<"2">>), Null, Undef}
ActIn == {Bool(TRUE), Bool(FALSE), Str(TrueChars), Undef}
BodyIdIn == {Undef, Num(7)}
AllBodies == Bodies(NameIn, NumIn, NumIn, ActIn, BodyIdIn)
QChars == {" ", "\t", "0", "1", "-", "+", ".", "a", "e"}
QStrings == {Str(<<>>)} \cup {Str(<<c>>) : c \in QChars}
            \cup {Str(<<c, d>>) : c, d \in QChars}
            \cup {Str(InfChars), Str(<<"1", "e", "2">>), Str(<<"0", "x", "1", "f">>),
                Str(<<"1", ".", "5">>), Str(<<"-", "1", "e", "9", "9", "9">>),
                Str(<<"U+00A0", "3">>)}
AllQueries == {[min |-> mi, max |-> ma, act |-> ac] :
                 mi \in {Undef} \cup QStrings, ma \in {Undef} \cup QStrings,
                 ac \in {Undef, Str(TrueChars), Str(FalseChars),
                         Str(<<"T", "r", "u", "e">>), Str(<<>>)}}

\* stores reachable from Seed: after PUT upsert of "90", after POST + DELETE s1,
\* after deleting both seeds
StartStates ==
  {[p |-> Seed, n |-> 1],
   [p |-> <<Seed[1], [id |-> <<"9", "0">>, nombre |-> Str(<<"a">>), precio |-> PosInf,
                      stock |-> Num(0), activo |-> Bool(FALSE)]>>, n |-> 1],
   [p |-> <<Seed[2], [id |-> FreshId(1), nombre |-> Str(<<"b">>), precio |-> Num(0),
                      stock |-> Num(4), activo |-> Bool(TRUE)]>>, n |-> 2],
   [p |-> <<>>, n |-> 1]}

ReqInit ==
  /\ \E st \in StartStates : prods = st.p /\ nextId = st.n
  /\ prev = prods
  /\ req = NoReq
  /\ resp = NoResp

\* route ids of single requests: also ids that are not valid header values
\* (PUT /productos/%E2%82%AC, PUT /productos/%0A)
ReqRouteIds == RouteIds \cup {<<"U+20AC">>, <<"\n">>}

ReqNext ==
  /\ req = NoReq
  /\ \/ \E b \in AllBodies : Post(b)
     \/ \E i \in ReqRouteIds, b \in AllBodies : Put(i, b)
     \/ \E i \in ReqRouteIds, b \in AllBodies : Patch(i, b)
     \/ \E i \in ReqRouteIds : Delete(i)
     \/ \E i \in ReqRouteIds : GetOne(i)
     \/ \E q \in AllQueries : List(q)

ReqSpec == ReqInit /\ [][ReqNext]_vars

\* ---- any later requests, from the store right after DELETE /productos/s2
\* ---- answered 204 on the seed ----
DeletedId == <<"s", "2">>
AfterDeleteInit ==
  /\ prods = <<Seed[1]>>
  /\ nextId = 1
  /\ prev = prods
  /\ req = NoReq
  /\ resp = NoResp

AfterDeleteSpec == AfterDeleteInit /\ [][Next]_vars

\* =================== properties ===================
IdsOf(ps) == {ps[i].id : i \in 1..Len(ps)}
IndexIn(ps, id) == CHOOSE i \in 1..Len(ps) : ps[i].id = id
\* the record a valid full body stores under id (name trimmed)
Stored(id, body) == [id |-> id, nombre |-> Str(Trim(body.nombre.s)),
                     precio |-> body.precio, stock |-> body.stock,
                     activo |-> body.activo]

C2_UniqueIds ==
  /\ \A i, j \in 1..Len(prods) : i # j => prods[i].id # prods[j].id
  /\ \A id \in IdsOf(prev) :
       id \in IdsOf(prods) \/ (req.op = "DELETE" /\ req.id = id)
C2_Witness == req.op = "PUT" /\ resp.status = 201 /\ req.id \in {<<"s", "1">>, <<"s", "2">>}

\* C3: a request answered 422 leaves the collection exactly as it was.
C3_NoPartialMutation ==
  resp.status = 422 => prods = prev
C3_Witness ==
  /\ req.op = "PATCH" /\ resp.status = 422 /\ resp.err = "precio invalido"
  /\ req.body.nombre = Str(<<" ", "b", "\n">>)

\* C4: PUT with a valid body appends a record with that id at the end and
\* answers 201 + Location when the id is absent; otherwise overwrites the
\* record in place (same id, same position) and answers 200 without Location;
\* never 404.
C4_PutUpsert ==
  (req.op = "PUT" /\ validarProductoCompleto(req.body) = "") =>
    /\ resp.status # 404
    /\ req.id \notin IdsOf(prev) =>
         /\ resp.status = 201 /\ resp.loc = <<req.id>>
         /\ prods = Append(prev, Stored(req.id, req.body))
    /\ req.id \in IdsOf(prev) =>
         /\ resp.status = 200 /\ resp.loc = <<>>
         /\ prods = [prev EXCEPT ![IndexIn(prev, req.id)] = Stored(req.id, req.body)]

C6_PatchFrame ==
  (req.op = "PATCH" /\ resp.status = 200) =>
    LET i == IndexIn(prev, req.id) IN
    /\ Len(prods) = Len(prev)
    /\ \A j \in 1..Len(prev) : j # i => prods[j] = prev[j]
    /\ prods[i].id = prev[i].id
    /\ DOMAIN prods[i] = DOMAIN prev[i]
    /\ \A f \in validKeys :
         prods[i][f] = IF req.body[f].t = "undefined" THEN prev[i][f]
                       ELSE IF f = "nombre" THEN Str(Trim(req.body.nombre.s))
                       ELSE req.body[f]
C6_Witness ==
  /\ req.op = "PATCH" /\ resp.status = 200 /\ req.id = <<"s", "2">>
  /\ req.body.stock = Num(3) /\ req.body.nombre = Str(<<" ", "b", "\n">>)
  /\ req.body.precio = Undef /\ req.body.id = Num(7)

\* C7 (as stated): once an id has been deleted (204), every later DELETE or
\* GET of that id answers 404 and leaves the collection unchanged.
C7_Original ==
  (req.op \in {"DELETE", "GETONE"} /\ req.id = DeletedId) =>
    resp.status = 404 /\ prods = prev

\* C7 (corrected): DELETE of a present id answers 204 and removes exactly that
\* record (others keep their order); a DELETE or GET of an id that is not
\* present answers 404 and leaves the collection unchanged; and a removed id
\* comes back only through a PUT of that id (POST issues ids never seen).
\* So a second DELETE and a later GET answer 404 unless a PUT re-created it.
DeleteRemoves ==
  (req.op = "DELETE" /\ req.id \in IdsOf(prev)) =>
    /\ resp.status = 204
    /\ Len(prods) = Len(prev) - 1
    /\ prods = SelectSeq(prev, LAMBDA p : p.id # req.id)
C7_DeleteAbsent ==
  [][ /\ DeleteRemoves'
      /\ (req'.op \in {"DELETE", "GETONE"} /\ req'.id \notin IdsOf(prods))
           => (resp'.status = 404 /\ prods' = prods)
      /\ \A id \in IdsOf(prods') \ IdsOf(prods) :
           (req'.op = "PUT" /\ req'.id = id) \/
           (req'.op = "POST" /\ id = FreshId(nextId)) ]_vars
C7_Witness ==
  /\ req.op = "DELETE" /\ req.id = DeletedId /\ resp.status = 404
  /\ Len(prods) = 2 /\ DeletedId \notin IdsOf(prods)

\* C8: listing keeps, in order, exactly the records within the parsed bounds
\* and with the parsed active flag; a min/max value that does not parse to a
\* number, or an active value other than "true"/"false", answers 400;
\* listing never mutates.
JsonList(ps) == [i \in 1..Len(ps) |-> JsonProduct(ps[i])]
ParsesAsNumber(str) ==
  LET t == Trim(str) IN
  t # <<>> /\ ~NumberOfString(str).nan
C8_ListFilters ==
  req.op = "LIST" =>
    /\ prods = prev
    /\ ((req.q.min.t # "undefined" /\ ~ParsesAsNumber(req.q.min.s)) \/
        (req.q.max.t # "undefined" /\ ~ParsesAsNumber(req.q.max.s)) \/
        (req.q.act.t # "undefined" /\ req.q.act.s \notin {TrueChars, FalseChars}))
         => resp.status = 400
    /\ resp.status = 200 =>
         resp.list = JsonList(SelectSeq(prev, LAMBDA p :
           /\ (req.q.min.t = "undefined" \/
               PriceGeQ(p.precio, NumberOfString(req.q.min.s)))
           /\ (req.q.max.t = "undefined" \/
               QGePrice(NumberOfString(req.q.max.s), p.precio))
           /\ (req.q.act.t = "undefined" \/
               p.activo.b = (req.q.act.s = TrueChars))))

\* the full-record rule of the specification: finite numbers >= 0
IsFiniteNonNeg(v) == v.t = "number" /\ v.k = "fin" /\ v.h >= 0
FiniteFirstError(body) ==
  IF body.nombre.t # "string" \/ Trim(body.nombre.s) = <<>> THEN "nombre invalido"
  ELSE IF ~IsFiniteNonNeg(body.precio) THEN "precio invalido"
  ELSE IF ~IsFiniteNonNeg(body.stock) THEN "stock invalido"
  ELSE IF ~isBoolean(body.activo) THEN "activo invalido"
  ELSE ""

\* C9: a POST with valid fields (name a string non-empty after trimming,
\* price and stock finite numbers >= 0, active a boolean) answers 201 with
\* Location of the new id, appends the record at the end, and GET of that id
\* returns the submitted fields with the name trimmed.
C9_PostThenGet ==
  (req.op = "POST" /\ FiniteFirstError(req.body) = "") =>
    /\ resp.status = 201 /\ Len(resp.loc) = 1
    /\ prods = Append(prev, Stored(resp.loc[1], req.body))
    /\ GetOneResp(resp.loc[1]).status = 200
    /\ GetOneResp(resp.loc[1]).rec = <<Stored(resp.loc[1], req.body)>>
C9_Witness ==
  /\ req.op = "POST" /\ resp.status = 201
  /\ req.body.nombre = Str(<<" ", "b", "\n">>) /\ req.body.precio = Num(3)

\* C10: create and replace reject a price or stock that is not a finite
\* number >= 0 with the message of the first failing field in the order name,
\* price, stock, active, and answer 422 only with that message.
C10_FiniteNumbers ==
  req.op \in {"POST", "PUT"} =>
    /\ FiniteFirstError(req.body) # "" => resp.status = 422
    /\ resp.status = 422 => resp.err = FiniteFirstError(req.body)

====
